---- MODULE Spec2Model ----
(***************************************************************************)
(* A model of bench.js, the Supabase realtime load harness.                *)
(*                                                                         *)
(* run() creates CLIENT_COUNT clients one after the other (each subscribes   *)
(* to the table's change feed and awaits an initial upsert), then arms two *)
(* interval timers: the write tick (an async callback that awaits one      *)
(* upsert per client) and the report.  Every piece of code between two     *)
(* awaits is one action.  The backend is the environment: it commits an    *)
(* upsert, answers it, and broadcasts the committed row to the channels    *)
(* that are joined, each in its own time.                                  *)
(***************************************************************************)
EXTENDS Integers, Sequences, FiniteSets, Bags

VARIABLES CLIENT_COUNT_ARG, CLIENT_COUNT, stats, clients, chan, pc, runI, ticks, net, now,
          ticksFired, injected, initWrites, out, last, limit

\* CLIENT_COUNT_ARG  the third argument of the command line, Undef if there
\*               is none
\* CLIENT_COUNT  the client count of the run (line 12), a number or NaN
\* stats         the counters sent, received, errors and the array latencies
\* clients       the array clients of run(), as far as it is filled
\* chan          per client, whether its channel joined or failed to
\* pc, runI      where run() is: before its start, suspended on the initial
\*               upsert of client runI, or ended with both timers armed
\* ticks         the runs of the tick callback that are suspended on an upsert
\* net           the rows sent whose change event is still to be broadcast
\* now           Date.now()
\* out           the lines the last step printed
\* History kept to bound the runs and to state the properties: ticksFired
\* and injected (ticks fired, events of other writers), initWrites (initial
\* upserts that returned and that threw), last (the last step), limit (the
\* size the run may reach).
vars == <<CLIENT_COUNT_ARG, CLIENT_COUNT, stats, clients, chan, pc, runI, ticks, net, now,
          ticksFired, injected, initWrites, out, last, limit>>

(* ------------------------------ bounds -------------------------------- *)
\* The size of a run: its client count plus the timer and environment
\* events in it (write ticks fired, change events of other writers, steps
\* of the clock, upserts that throw, channels that fail to join).  Runs of
\* every shape up to this size are explored.
MaxSize == 4
\* the size of the runs explored for the volume report, which are runs of
\* VolumeClients clients without change events
VolumeSize == 9
VolumeClients == 2
\* the size of the runs explored with overlapping ticks, and the most
\* ticks suspended at a time in them
OverlapSize == 8
MaxOverlap == 3
\* the value of Date.now() when the run starts
StartTime == 9
\* the longest third argument of the command line that is explored
MaxArgLen == 3
\* the sample arrays pct is applied to: every array of up to MaxSamples
\* samples of 0 .. MaxSample ms, and the samples 1, 2, ..., LongRun, long
\* enough for the index of the 95th percentile to be below the last one
MaxSamples == 4
MaxSample == 2
LongRun == 21

(* --------------------------- JavaScript values ------------------------ *)
\* A string is a sequence of characters; a field that is absent or null is
\* Undef.  A number is an integer or NaN.
Str(s) == [t |-> "string", s |-> s]
Undef == [t |-> "undefined", s |-> <<>>]
Truthy(v) == v.t = "string" /\ v.s # <<>>

Num(n) == [nan |-> FALSE, n |-> n]
NaN == [nan |-> TRUE, n |-> 0]

Digits == <<"0", "1", "2", "3", "4", "5", "6", "7", "8", "9">>
IsDigit(c) == \E d \in 1..10 : Digits[d] = c
DigitVal(c) == (CHOOSE d \in 1..10 : Digits[d] = c) - 1

\* Number.prototype.toString of a non-negative integer
RECURSIVE toString(_)
toString(n) ==
    IF n < 10 THEN <<Digits[n + 1]>>
    ELSE toString(n \div 10) \o <<Digits[(n % 10) + 1]>>

\* the longest prefix of s made of decimal digits
RECURSIVE DigitPrefix(_)
DigitPrefix(s) ==
    IF s # <<>> /\ IsDigit(Head(s)) THEN <<Head(s)>> \o DigitPrefix(Tail(s))
    ELSE <<>>

RECURSIVE DigitsValue(_)
DigitsValue(s) ==
    IF s = <<>> THEN 0
    ELSE 10 * DigitsValue(SubSeq(s, 1, Len(s) - 1)) + DigitVal(s[Len(s)])

RECURSIVE TrimStart(_)
TrimStart(s) == IF s # <<>> /\ Head(s) = " " THEN TrimStart(Tail(s)) ELSE s

\* parseInt(v, 10): leading white space, an optional sign, then the leading
\* decimal digits; NaN when there is none (also for undefined, whose string
\* form starts with a letter).
ParseInt(v) ==
    LET s == TrimStart(v.s)
        neg == s # <<>> /\ Head(s) = "-"
        body == IF s # <<>> /\ Head(s) \in {"-", "+"} THEN Tail(s) ELSE s
        ds == DigitPrefix(body)
    IN  IF v.t # "string" \/ ds = <<>> THEN NaN
        ELSE Num(IF neg THEN 0 - DigitsValue(ds) ELSE DigitsValue(ds))

\* a - b on numbers
Minus(a, b) == IF a.nan \/ b.nan THEN NaN ELSE Num(a.n - b.n)

(* ------------------------------ bench.js ------------------------------ *)
\* line 12: parseInt(CLIENT_COUNT_ARG || '1000', 10)
ClientCountOf(arg) ==
    ParseInt(IF Truthy(arg) THEN arg ELSE Str(<<"1", "0", "0", "0">>))

\* makeId without the index
makeIdSame(i) == Str(<<"c", "l", "i", "e", "n", "t", "-">>)

makeId(i) == Str(<<"c", "l", "i", "e", "n", "t", "-">> \o toString(i))

\* the row of the initial upsert and of a tick's upsert
InitRow(id, t) ==
    [t |-> "object", id |-> id, value |-> Str(<<"i", "n", "i", "t">>),
     _bench_sent_ts |-> Str(toString(t))]
TickRow(id, sendTs) ==
    [t |-> "object", id |-> id, value |-> Str(<<"v">> \o toString(sendTs)),
     _bench_sent_ts |-> Str(toString(sendTs))]
\* payload.new of an event that carries no new row
NullRow == [t |-> "null", id |-> Undef, value |-> Undef, _bench_sent_ts |-> Undef]

\* Handler without the test of the row's id
HandlerAnyId(myId, rec, st, t) ==
    IF rec.t = "object" /\ Truthy(rec._bench_sent_ts)
    THEN [st EXCEPT !.received = @ + 1,
                    !.latencies = Append(@, Minus(Num(t), ParseInt(rec._bench_sent_ts)))]
    ELSE st

\* Handler that keeps the latest sample only
HandlerLosesSample(myId, rec, st, t) ==
    IF rec.t = "object" /\ rec.id = myId /\ Truthy(rec._bench_sent_ts)
    THEN [st EXCEPT !.received = @ + 1,
                    !.latencies = <<Minus(Num(t), ParseInt(rec._bench_sent_ts))>>]
    ELSE st

\* The postgres_changes callback of the client whose id is myId, on stats st
\* at time t.  Nothing in its try block throws on a payload that came as
\* JSON, so its catch (errors++) is never entered.
Handler(myId, rec, st, t) ==
    IF rec.t = "object" /\ rec.id = myId /\ Truthy(rec._bench_sent_ts)
    THEN LET sendTs == ParseInt(rec._bench_sent_ts)
             rtt == Minus(Num(t), sendTs)
         IN  [st EXCEPT !.received = @ + 1, !.latencies = Append(@, rtt)]
    ELSE st

\* FanOut with every callback registered twice on its channel
RECURSIVE FanOutTwice(_, _, _, _, _, _)
FanOutTwice(k, cl, ch, rec, st, t) ==
    IF k > Len(cl) THEN st
    ELSE FanOutTwice(k + 1, cl, ch, rec,
                     IF ch[k] = "SUBSCRIBED"
                     THEN Handler(cl[k].id, rec, Handler(cl[k].id, rec, st, t), t)
                     ELSE st,
                     t)

\* one change event reaches the callbacks of the clients k..Len(clients)
\* whose channel is joined, one callback after the other
RECURSIVE FanOut(_, _, _, _, _, _)
FanOut(k, cl, ch, rec, st, t) ==
    IF k > Len(cl) THEN st
    ELSE FanOut(k + 1, cl, ch, rec,
                IF ch[k] = "SUBSCRIBED" THEN Handler(cl[k].id, rec, st, t) ELSE st,
                t)

(* ------------------------------ statistics ---------------------------- *)
HasNaN(arr) == \E k \in 1..Len(arr) : arr[k].nan

RECURSIVE Sum(_)
Sum(arr) == IF arr = <<>> THEN 0 ELSE Head(arr).n + Sum(Tail(arr))

RECURSIVE Insert(_, _)
Insert(x, sorted) ==
    IF sorted = <<>> THEN <<x>>
    ELSE IF x.n < Head(sorted).n THEN <<x>> \o sorted
    ELSE <<Head(sorted)>> \o Insert(x, Tail(sorted))

\* the array left as it is instead of sorted
Unsorted(arr) == arr

\* Array.from(arr).sort((a,b)=>a-b) of an array without NaN
RECURSIVE SortAsc(_)
SortAsc(arr) == IF arr = <<>> THEN <<>> ELSE Insert(arr[Len(arr)], SortAsc(SubSeq(arr, 1, Len(arr) - 1)))

Min2(a, b) == IF a < b THEN a ELSE b

\* The values pct(arr, p) can return.  With a NaN in arr the comparator
\* a-b is not a consistent one and the order the sort leaves is the
\* engine's choice: any element can be at the index.
pct(arr, p) ==
    IF Len(arr) = 0 THEN {Num(0)}
    ELSE IF HasNaN(arr) THEN {arr[k] : k \in 1..Len(arr)}
    ELSE LET sorted == SortAsc(arr)
             idx == (p * Len(sorted)) \div 100
         IN  {sorted[Min2(idx, Len(sorted) - 1) + 1]}

\* how a value shows in the printed line
Dash == [k |-> "-", n |-> 0]
Shown(x) == IF x.nan THEN [k |-> "NaN", n |-> 0] ELSE [k |-> "number", n |-> x.n]
\* x.toFixed(1) for x = num/den: the tenths, halves rounded away from zero
Fixed1(num, den) ==
    LET a == IF num < 0 THEN 0 - num ELSE num
        tenths == (20 * a + den) \div (2 * den)
    IN  [k |-> "fixed1", n |-> IF num < 0 THEN 0 - tenths ELSE tenths]

MinOf(arr) == CHOOSE x \in {arr[k].n : k \in 1..Len(arr)} :
                 \A y \in {arr[k].n : k \in 1..Len(arr)} : x <= y
MaxOf(arr) == CHOOSE x \in {arr[k].n : k \in 1..Len(arr)} :
                 \A y \in {arr[k].n : k \in 1..Len(arr)} : x >= y

\* the lines printSummary() can print for stats st
printSummary(st) ==
    LET lat == st.latencies
        avg == IF Len(lat) # 0
               THEN (IF HasNaN(lat) THEN Shown(NaN) ELSE Fixed1(Sum(lat), Len(lat)))
               ELSE Dash
        min == IF Len(lat) # 0
               THEN (IF HasNaN(lat) THEN Shown(NaN) ELSE Shown(Num(MinOf(lat))))
               ELSE Dash
        max == IF Len(lat) # 0
               THEN (IF HasNaN(lat) THEN Shown(NaN) ELSE Shown(Num(MaxOf(lat))))
               ELSE Dash
    IN  {[line |-> "summary", SENT |-> st.sent, RECV |-> st.received, ERR |-> st.errors,
          avg |-> avg, min |-> min, max |-> max, p95 |-> Shown(p95),
          samples |-> Len(lat)] : p95 \in pct(lat, 95)}

\* the other lines of the console
Line(text) ==
    [line |-> text, SENT |-> 0, RECV |-> 0, ERR |-> 0, avg |-> Dash, min |-> Dash,
     max |-> Dash, p95 |-> Dash, samples |-> 0]

(* ------------------------------ the run ------------------------------- *)
\* what the last step was: its name, the index of the client whose upsert
\* returned in it, the row of the event it delivered
Did(op, i, row) == [op |-> op, i |-> i, row |-> row]

\* the outcomes of subscribing a channel: it joins, or it fails to
SubscribeStates == {"SUBSCRIBED", "CHANNEL_ERROR"}

\* the size of the run so far; stats.errors counts the upserts that threw
\* (the callback's catch is never entered, see Handler)
SizeOf(st, ch, fired, inj, t) ==
    CLIENT_COUNT.n + fired + inj + (t - StartTime) + st.errors
    + Cardinality({k \in 1..Len(ch) : ch[k] = "CHANNEL_ERROR"})
Size == SizeOf(stats, chan, ticksFired, injected, now)

Start ==
    /\ stats = [sent |-> 0, received |-> 0, latencies |-> <<>>, errors |-> 0]
    /\ clients = <<>>
    /\ chan = <<>>
    /\ pc = "start"
    /\ runI = 0
    /\ ticks = EmptyBag
    /\ net = EmptyBag
    /\ now = StartTime
    /\ ticksFired = 0
    /\ injected = 0
    /\ initWrites = [ok |-> 0, failed |-> 0]
    /\ out = <<>>
    /\ last = Did("Start", 0, NullRow)

\* the runs of 1 .. MaxSize - 1 clients, the count given in decimal
Init ==
    /\ limit = MaxSize
    /\ CLIENT_COUNT_ARG \in {Str(toString(n)) : n \in 1..(MaxSize - 1)}
    /\ CLIENT_COUNT = ClientCountOf(CLIENT_COUNT_ARG)
    /\ Start

\* An upsert of row is sent.  net holds the rows sent whose change event has
\* not been broadcast; the backend broadcasts each at a time of its own, or
\* never (the write failed, or the message is lost).
Upsert(row) == net' = net (+) SetToBag({row})

\* Lines 32-60 for client i: create it, subscribe (the channel joins or
\* fails to; the status callback has an empty body), store it, send its
\* initial upsert and suspend on it.
CreateClient(i) ==
    /\ clients' = Append(clients, [id |-> makeId(i)])
    /\ \E status \in SubscribeStates : chan' = Append(chan, status)
    /\ Upsert(InitRow(makeId(i), now))
    /\ runI' = i
    /\ pc' = "init"

\* run() up to its first await, when there is a client to create
RunStart ==
    /\ pc = "start"
    /\ ~CLIENT_COUNT.nan /\ 0 < CLIENT_COUNT.n
    /\ CreateClient(0)
    /\ out' = <<Line("Starting benchmark")>>
    /\ last' = Did("RunStart", 0, NullRow)
    /\ SizeOf(stats, chan', ticksFired, injected, now) <= limit
    /\ UNCHANGED <<CLIENT_COUNT_ARG, CLIENT_COUNT, stats, ticks, now, ticksFired, injected, initWrites, limit>>

\* new Array(CLIENT_COUNT) throws a RangeError when CLIENT_COUNT is NaN or
\* negative: the promise of run() is rejected, and its catch logs the error
\* and ends the process with status 1.
RunThrows ==
    /\ pc = "start"
    /\ CLIENT_COUNT.nan \/ CLIENT_COUNT.n < 0
    /\ pc' = "exit"
    /\ out' = <<Line("Starting benchmark"), Line("RangeError")>>
    /\ last' = Did("RunThrows", 0, NullRow)
    /\ UNCHANGED <<CLIENT_COUNT_ARG, CLIENT_COUNT, stats, clients, chan, runI, ticks, net,
                   now, ticksFired, injected, initWrites, limit>>

\* run() when CLIENT_COUNT is 0: the loop has no turn, the timers are armed
RunEmpty ==
    /\ pc = "start"
    /\ ~CLIENT_COUNT.nan /\ CLIENT_COUNT.n = 0
    /\ pc' = "running"
    /\ out' = <<Line("Starting benchmark"),
                Line("All clients created and subscribed.")>>
    /\ last' = Did("RunEmpty", 0, NullRow)
    /\ UNCHANGED <<CLIENT_COUNT_ARG, CLIENT_COUNT, stats, clients, chan, runI, ticks, net,
                   now, ticksFired, injected, initWrites, limit>>

\* InitReturn that counts the initial upsert that returns in stats.sent
InitReturnCounts(ok) ==
    /\ pc = "init"
    /\ stats' = IF ok THEN [stats EXCEPT !.sent = @ + 1]
                ELSE [stats EXCEPT !.errors = @ + 1]
    /\ initWrites' = IF ok THEN [initWrites EXCEPT !.ok = @ + 1]
                     ELSE [initWrites EXCEPT !.failed = @ + 1]
    /\ IF runI + 1 < CLIENT_COUNT.n
       THEN /\ CreateClient(runI + 1)
            /\ out' = IF ok THEN <<>> ELSE <<Line("initial upsert error")>>
       ELSE /\ pc' = "running"
            /\ runI' = runI + 1
            /\ out' = (IF ok THEN <<>> ELSE <<Line("initial upsert error")>>)
                      \o <<Line("All clients created and subscribed.")>>
            /\ UNCHANGED <<clients, chan, net>>
    /\ last' = Did(IF ok THEN "InitReturn" ELSE "InitThrow", runI, NullRow)
    /\ SizeOf(stats', chan', ticksFired, injected, now) <= limit
    /\ UNCHANGED <<CLIENT_COUNT_ARG, CLIENT_COUNT, ticks, now, ticksFired, injected, limit>>

\* The initial upsert of client runI returns (ok) or throws; the loop goes
\* on to the next client, or run() logs, arms the two timers and ends.
InitReturn(ok) ==
    /\ pc = "init"
    /\ stats' = IF ok THEN stats ELSE [stats EXCEPT !.errors = @ + 1]
    /\ initWrites' = IF ok THEN [initWrites EXCEPT !.ok = @ + 1]
                     ELSE [initWrites EXCEPT !.failed = @ + 1]
    /\ IF runI + 1 < CLIENT_COUNT.n
       THEN /\ CreateClient(runI + 1)
            /\ out' = IF ok THEN <<>> ELSE <<Line("initial upsert error")>>
       ELSE /\ pc' = "running"
            /\ runI' = runI + 1
            /\ out' = (IF ok THEN <<>> ELSE <<Line("initial upsert error")>>)
                      \o <<Line("All clients created and subscribed.")>>
            /\ UNCHANGED <<clients, chan, net>>
    /\ last' = Did(IF ok THEN "InitReturn" ELSE "InitThrow", runI, NullRow)
    /\ SizeOf(stats', chan', ticksFired, injected, now) <= limit
    /\ UNCHANGED <<CLIENT_COUNT_ARG, CLIENT_COUNT, ticks, now, ticksFired, injected, limit>>

\* The write timer fires: a new run of the tick callback starts with client
\* 0 and suspends on its upsert.  ticks holds, for each run of the callback
\* that is suspended, the index i of the client whose upsert it awaits, and
\* sent0, the value stats.sent had when the run started (kept to state what
\* a batch did; the code has no such value, and its local start is never
\* read).
TickFire ==
    /\ pc = "running"
    /\ Size < limit
    /\ ticksFired' = ticksFired + 1
    /\ ticks' = ticks (+) SetToBag({[i |-> 0, sent0 |-> stats.sent]})
    /\ Upsert(TickRow(clients[1].id, now))
    /\ out' = <<>>
    /\ last' = Did("TickFire", 0, NullRow)
    /\ UNCHANGED <<CLIENT_COUNT_ARG, CLIENT_COUNT, stats, clients, chan, pc, runI, now, injected, initWrites, limit>>

\* the test of line 86 with a batch that sent nothing left out
VolumeReportNonZero(st) == st.sent > 0 /\ st.sent % (CLIENT_COUNT.n * 5) = 0

\* the test of line 86 on the counters st
VolumeReport(st) == st.sent % (CLIENT_COUNT.n * 5) = 0

\* TickReturn with a throw that ends the tick's loop (a try around the loop
\* instead of inside it)
TickReturnStops(tick, ok) ==
    /\ BagIn(tick, ticks)
    /\ stats' = IF ok THEN [stats EXCEPT !.sent = @ + 1]
                ELSE [stats EXCEPT !.errors = @ + 1]
    /\ IF ok /\ tick.i + 1 < CLIENT_COUNT.n
       THEN /\ ticks' = (ticks (-) SetToBag({tick}))
                        (+) SetToBag({[tick EXCEPT !.i = @ + 1]})
            /\ Upsert(TickRow(clients[tick.i + 2].id, now))
            /\ out' = <<>>
       ELSE /\ ticks' = ticks (-) SetToBag({tick})
            /\ net' = net
            /\ IF ok /\ VolumeReport(stats')
               THEN \E l \in printSummary(stats') : out' = <<l>>
               ELSE out' = <<>>
    /\ last' = Did(IF ok THEN "TickReturn" ELSE "TickThrow", tick.i, NullRow)
    /\ SizeOf(stats', chan, ticksFired, injected, now) <= limit
    /\ UNCHANGED <<CLIENT_COUNT_ARG, CLIENT_COUNT, clients, chan, pc, runI, now, ticksFired, injected,
                   initWrites, limit>>

\* The upsert a suspended tick awaits returns (ok) or throws: count it,
\* then send the next client's upsert, or end the batch with the volume
\* test and the summary.
TickReturn(tick, ok) ==
    /\ BagIn(tick, ticks)
    /\ stats' = IF ok THEN [stats EXCEPT !.sent = @ + 1]
                ELSE [stats EXCEPT !.errors = @ + 1]
    /\ IF tick.i + 1 < CLIENT_COUNT.n
       THEN /\ ticks' = (ticks (-) SetToBag({tick}))
                        (+) SetToBag({[tick EXCEPT !.i = @ + 1]})
            /\ Upsert(TickRow(clients[tick.i + 2].id, now))
            /\ out' = <<>>
       ELSE /\ ticks' = ticks (-) SetToBag({tick})
            /\ net' = net
            /\ IF VolumeReport(stats')
               THEN \E l \in printSummary(stats') : out' = <<l>>
               ELSE out' = <<>>
    /\ last' = Did(IF ok THEN "TickReturn" ELSE "TickThrow", tick.i, NullRow)
    /\ SizeOf(stats', chan, ticksFired, injected, now) <= limit
    /\ UNCHANGED <<CLIENT_COUNT_ARG, CLIENT_COUNT, clients, chan, pc, runI, now, ticksFired, injected,
                   initWrites, limit>>

\* Notify that drops the event while an upsert is awaited (the callbacks
\* taking events only between the writes)
NotifyDropsEarly(row) ==
    /\ BagIn(row, net)
    /\ net' = net (-) SetToBag({row})
    /\ stats' = IF pc = "running" /\ ticks = EmptyBag
                THEN FanOut(1, clients, chan, row, stats, now)
                ELSE stats
    /\ out' = <<>>
    /\ last' = Did("Notify", 0, row)
    /\ UNCHANGED <<CLIENT_COUNT_ARG, CLIENT_COUNT, clients, chan, pc, runI, ticks, now, ticksFired,
                   injected, initWrites, limit>>

\* The backend broadcasts the change event of a row: the callbacks of the
\* joined channels run on it.
Notify(row) ==
    /\ BagIn(row, net)
    /\ net' = net (-) SetToBag({row})
    /\ stats' = FanOut(1, clients, chan, row, stats, now)
    /\ out' = <<>>
    /\ last' = Did("Notify", 0, row)
    /\ UNCHANGED <<CLIENT_COUNT_ARG, CLIENT_COUNT, clients, chan, pc, runI, ticks, now, ticksFired,
                   injected, initWrites, limit>>

\* The rows other writers of the table can put in an event: no new row, or
\* a row of the first client's id or of an id no client of this run has,
\* whose timestamp is absent, no number, or a number.
ForeignRows ==
    {NullRow} \cup
    {[t |-> "object", id |-> makeId(i), value |-> Undef, _bench_sent_ts |-> ts] :
        i \in {0, CLIENT_COUNT.n},
        ts \in {Undef, Str(<<"x">>), Str(toString(StartTime))}}

\* a change event that is not the echo of a write of this run
ForeignEvent(row) ==
    /\ Size < limit
    /\ injected' = injected + 1
    /\ stats' = FanOut(1, clients, chan, row, stats, now)
    /\ out' = <<>>
    /\ last' = Did("ForeignEvent", 0, row)
    /\ UNCHANGED <<CLIENT_COUNT_ARG, CLIENT_COUNT, clients, chan, pc, runI, ticks, net, now, ticksFired,
                   initWrites, limit>>

\* Report with a pct that sorts stats.latencies itself, not a copy of it
ReportSorts ==
    /\ pc = "running"
    /\ \E l \in printSummary(stats) : out' = <<l>>
    /\ stats' = [stats EXCEPT !.latencies = SortAsc(@)]
    /\ last' = Did("Report", 0, NullRow)
    /\ UNCHANGED <<CLIENT_COUNT_ARG, CLIENT_COUNT, clients, chan, pc, runI, ticks, net, now,
                   ticksFired, injected, initWrites, limit>>

\* the report timer fires
Report ==
    /\ pc = "running"
    /\ \E l \in printSummary(stats) : out' = <<l>>
    /\ last' = Did("Report", 0, NullRow)
    /\ UNCHANGED <<CLIENT_COUNT_ARG, CLIENT_COUNT, stats, clients, chan, pc, runI, ticks, net, now,
                   ticksFired, injected, initWrites, limit>>

\* time passes
Advance ==
    /\ Size < limit
    /\ now' = now + 1
    /\ out' = <<>>
    /\ last' = Did("Advance", 0, NullRow)
    /\ UNCHANGED <<CLIENT_COUNT_ARG, CLIENT_COUNT, stats, clients, chan, pc, runI, ticks, net, ticksFired,
                   injected, initWrites, limit>>

Next ==
    \/ RunStart
    \/ \E ok \in BOOLEAN : InitReturn(ok)
    \/ TickFire
    \/ \E tick \in BagToSet(ticks), ok \in BOOLEAN : TickReturn(tick, ok)
    \/ \E row \in BagToSet(net) : Notify(row)
    \/ \E row \in ForeignRows : ForeignEvent(row)
    \/ Report
    \/ Advance

Spec == Init /\ [][Next]_vars

\* Longer runs of the write loop alone, so that stats.sent gets past
\* 5 * CLIENT_COUNT: VolumeClients clients, every batch ends before the
\* timer fires again, no change event is ever broadcast (the echoes never
\* come), and the report timer and the clock are left out.
InitVolume ==
    /\ limit = VolumeSize
    /\ CLIENT_COUNT_ARG = Str(toString(VolumeClients))
    /\ CLIENT_COUNT = ClientCountOf(CLIENT_COUNT_ARG)
    /\ Start

NextVolume ==
    \/ RunStart
    \/ \E ok \in BOOLEAN : InitReturn(ok)
    \/ (ticks = EmptyBag /\ TickFire)
    \/ \E tick \in BagToSet(ticks), ok \in BOOLEAN : TickReturn(tick, ok)

SpecVolume == InitVolume /\ [][NextVolume]_vars

\* Runs of the write loop with the write timer firing while ticks are
\* suspended, up to MaxOverlap of them at a time.
InitOverlap ==
    /\ limit = OverlapSize
    /\ CLIENT_COUNT_ARG = Str(toString(VolumeClients))
    /\ CLIENT_COUNT = ClientCountOf(CLIENT_COUNT_ARG)
    /\ Start

NextOverlap ==
    \/ RunStart
    \/ \E ok \in BOOLEAN : InitReturn(ok)
    \/ (BagCardinality(ticks) < MaxOverlap /\ TickFire)
    \/ \E tick \in BagToSet(ticks), ok \in BOOLEAN : TickReturn(tick, ok)

SpecOverlap == InitOverlap /\ [][NextOverlap]_vars

\* printSummary() on sample arrays of every order: the run of one client
\* that has recorded the samples arr, and the report timer.  The arrays are
\* the short ones, and the samples 10, 20, ..., 100 and 1, 2, ..., LongRun
\* rotated by every number of places, forwards and backwards.
Ramp(n, step) == [k \in 1..n |-> Num(step * k)]
Orders(arr) ==
    LET n == Len(arr)
    IN  {[k \in 1..n |-> arr[((k + r) % n) + 1]] : r \in 0..(n - 1)}
        \cup {[k \in 1..n |-> arr[((n - k + r) % n) + 1]] : r \in 0..(n - 1)}
SampleArrays ==
    UNION {[1..n -> {Num(v) : v \in 0..MaxSample}] : n \in 0..MaxSamples}
    \cup Orders(Ramp(10, 10)) \cup Orders(Ramp(LongRun, 1))

InitPct ==
    /\ limit = MaxSize
    /\ CLIENT_COUNT_ARG = Str(<<"1">>)
    /\ CLIENT_COUNT = ClientCountOf(CLIENT_COUNT_ARG)
    /\ \E arr \in SampleArrays :
          stats = [sent |-> 0, received |-> Len(arr), latencies |-> arr, errors |-> 0]
    /\ clients = <<[id |-> makeId(0)]>>
    /\ chan = <<"SUBSCRIBED">>
    /\ pc = "running"
    /\ runI = 1
    /\ ticks = EmptyBag
    /\ net = EmptyBag
    /\ now = StartTime
    /\ ticksFired = 0
    /\ injected = 0
    /\ initWrites = [ok |-> 1, failed |-> 0]
    /\ out = <<>>
    /\ last = Did("Start", 0, NullRow)

NextPct == Report

SpecPct == InitPct /\ [][NextPct]_vars

\* The start of the process for every third argument: no argument, and the
\* strings of up to MaxArgLen characters of ArgChars.  run() is followed up
\* to its first await, or to its end when it has none.
ArgChars == {"0", "1", "2", "a", "-"}
Args ==
    {Undef} \cup {Str(s) : s \in UNION {[1..n -> ArgChars] : n \in 0..MaxArgLen}}

InitArgs ==
    /\ limit = MaxSize
    /\ CLIENT_COUNT_ARG \in Args
    /\ CLIENT_COUNT = ClientCountOf(CLIENT_COUNT_ARG)
    /\ Start

NextArgs == RunStart \/ RunThrows \/ RunEmpty

SpecArgs == InitArgs /\ [][NextArgs]_vars

(* ------------------------------ the claims ---------------------------- *)
\* the step l was the delivery of a change event to the callbacks
IsDelivery(l) == l.op \in {"Notify", "ForeignEvent"}
\* the clients with a joined channel whose id is the id of row
Listening(row) ==
    {k \in 1..Len(clients) : chan[k] = "SUBSCRIBED" /\ clients[k].id = row.id}
\* the printed lines of the last step that are summaries
Summaries(o) == {n \in 1..Len(o) : o[n].line = "summary"}
\* the channels that failed to join
FailedChannels == {k \in 1..Len(chan) : chan[k] = "CHANNEL_ERROR"}

\* C1: an event whose row has another id than a client's (the id of another
\* client, or of no client) leaves the counters and the samples as they are
\* when that client's callback runs on it; the samples change only in the
\* delivery of an event whose id is the id of a client that listens.
C1_ForeignIdentityIgnored ==
    [][ /\ \A k \in 1..Len(clients), row \in BagToSet(net) \cup ForeignRows :
              row.id # clients[k].id => Handler(clients[k].id, row, stats, now) = stats
        /\ (IsDelivery(last') /\ Listening(last'.row) = {}) => stats' = stats
        /\ stats'.latencies # stats.latencies
              => IsDelivery(last') /\ Listening(last'.row) # {} ]_vars

\* C1 witness: an event with a timestamp and the id of no client has just
\* been delivered while every client listens, and nothing was recorded
C1_Witness ==
    /\ last.op = "ForeignEvent"
    /\ last.row.id = makeId(CLIENT_COUNT.n)
    /\ Truthy(last.row._bench_sent_ts)
    /\ Len(clients) = 2
    /\ \A k \in 1..Len(clients) : chan[k] = "SUBSCRIBED"
    /\ stats.received = 0

\* C2 (as claimed): at most one run of the tick callback is in progress
C2_TicksNeverOverlap == BagCardinality(ticks) <= 1

\* C3 (as claimed): when no upsert has thrown and the echoes of two writes of
\* one id are both still to come, the echo of the earlier write records no
\* sample (the one sample is measured against the latest send timestamp)
C3_OverwriteSemantics ==
    [][ ( /\ last'.op = "Notify"
          /\ stats.errors = 0
          /\ \E later \in BagToSet(net') :
                /\ later.id = last'.row.id
                /\ ParseInt(later._bench_sent_ts).n > ParseInt(last'.row._bench_sent_ts).n )
        => stats'.latencies = stats.latencies ]_vars

\* C4 (as claimed): three clients, no write failed, every channel joined, no
\* event of another writer, one tick fired and completed, every echo
\* delivered: sent is 3 and received is 3
C4_EndToEnd ==
    ( /\ CLIENT_COUNT.n = 3
      /\ pc = "running"
      /\ stats.errors = 0
      /\ FailedChannels = {}
      /\ injected = 0
      /\ ticksFired = 1
      /\ ticks = EmptyBag
      /\ net = EmptyBag )
    => (stats.sent = 3 /\ stats.received = 3)

\* C5 (as claimed): an event with the id of a client that listens, whose
\* timestamp is absent or is no number, changes nothing
C5_CorrelationFailureIgnored ==
    [][ ( /\ IsDelivery(last')
          /\ Listening(last'.row) # {}
          /\ ParseInt(last'.row._bench_sent_ts).nan )
        => stats' = stats ]_vars

\* C6 (as claimed): a summary of an empty sample set shows avg, min, max and
\* p95 as unavailable
C6_EmptyUnavailable ==
    \A n \in Summaries(out) :
        out[n].samples = 0
        => (out[n].avg = Dash /\ out[n].min = Dash /\ out[n].max = Dash /\ out[n].p95 = Dash)

\* C7: a tick's upsert that throws adds one to errors and leaves sent (and
\* received and the samples) alone; the same tick goes on with the upsert
\* of the next client, if there is one, and the timers stay armed.
C7_FailedWriteContinues ==
    [][ last'.op = "TickThrow"
        => /\ stats' = [stats EXCEPT !.errors = @ + 1]
           /\ pc' = "running"
           /\ ticksFired' = ticksFired
           /\ \E tick \in BagToSet(ticks) :
                 /\ tick.i = last'.i
                 /\ IF tick.i + 1 < CLIENT_COUNT.n
                    THEN /\ ticks' = (ticks (-) SetToBag({tick}))
                                     (+) SetToBag({[tick EXCEPT !.i = @ + 1]})
                         /\ net' = net (+) SetToBag({TickRow(clients[tick.i + 2].id, now)})
                    ELSE ticks' = ticks (-) SetToBag({tick}) ]_vars

\* C7 witness: the upsert of the first of two clients has just thrown in a
\* tick, and the tick awaits the upsert of the second
C7_Witness ==
    /\ last.op = "TickThrow"
    /\ last.i = 0
    /\ CLIENT_COUNT.n = 2
    /\ \E tick \in BagToSet(ticks) : tick.i = 1
    /\ stats.sent = 0

\* stats.sent went from a to b past a multiple of 5 * CLIENT_COUNT
Crossed(a, b) == \E m \in 1..b : a < m * (5 * CLIENT_COUNT.n) /\ m * (5 * CLIENT_COUNT.n) <= b

\* C8 (as claimed): a batch in which sent crossed a multiple of
\* 5 * CLIENT_COUNT ends with a summary
C8_VolumeCrossing ==
    [][ \A tick \in BagToSet(ticks) :
           ( /\ last'.op \in {"TickReturn", "TickThrow"}
             /\ last'.i = CLIENT_COUNT.n - 1
             /\ tick.i = CLIENT_COUNT.n - 1
             /\ CopiesIn(tick, ticks') < CopiesIn(tick, ticks)
             /\ Crossed(tick.sent0, stats'.sent) )
           => Summaries(out') # {} ]_vars

\* C9 (as claimed): every setup failure, the initial upsert's or the
\* subscription's, is counted in errors
C9_SetupFailureCounted ==
    stats.errors >= initWrites.failed + Cardinality(FailedChannels)

\* C10: once startup is over there are CLIENT_COUNT clients, client i has
\* the id client-i, the ids differ from each other, and CLIENT_COUNT initial
\* upserts have returned or thrown
C10_StartupComplete ==
    pc = "running"
    => /\ Len(clients) = CLIENT_COUNT.n
       /\ Len(chan) = CLIENT_COUNT.n
       /\ \A k \in 1..Len(clients) :
             clients[k].id = Str(<<"c", "l", "i", "e", "n", "t", "-">> \o toString(k - 1))
       /\ \A j, k \in 1..Len(clients) : j # k => clients[j].id # clients[k].id
       /\ initWrites.ok + initWrites.failed = CLIENT_COUNT.n
       /\ stats.errors >= initWrites.failed

\* C10 witness: startup of three clients is over, with an initial upsert
\* that threw
C10_Witness ==
    /\ pc = "running"
    /\ CLIENT_COUNT.n = 3
    /\ initWrites.failed = 1
    /\ initWrites.ok = 2

\* C14: the client count is the integer given as third argument, and it is
\* 1000 when that argument is omitted or is not numeric; in both of these
\* cases the run starts with its 1000 clients.
C14_DefaultClientCount ==
    LET arg == CLIENT_COUNT_ARG
        AllDigits == arg.s # <<>> /\ \A k \in 1..Len(arg.s) : IsDigit(arg.s[k])
        NoDigit == \A k \in 1..Len(arg.s) : ~IsDigit(arg.s[k])
    IN  /\ arg # Undef /\ AllDigits => CLIENT_COUNT = Num(DigitsValue(arg.s))
        /\ arg = Undef \/ NoDigit
           => /\ CLIENT_COUNT = Num(1000)
              /\ pc # "exit"

\* C11: no update of the counters is lost.  In every state stats.received is
\* the number of samples; every run of a callback on an event of its own
\* id with a timestamp adds one to stats.received and one sample after the
\* samples there were, whatever ticks, awaited upserts and reports it is
\* interleaved with.
C11_NoLostUpdates ==
    [][ /\ stats.received = Len(stats.latencies)
        /\ stats'.received = Len(stats'.latencies)
        /\ (IsDelivery(last') /\ Truthy(last'.row._bench_sent_ts))
              => LET M == Cardinality(Listening(last'.row))
                 IN  /\ stats'.received = stats.received + M
                     /\ Len(stats'.latencies) = Len(stats.latencies) + M
                     /\ SubSeq(stats'.latencies, 1, Len(stats.latencies))
                          = stats.latencies ]_vars

\* C11 witness: a second sample has just been recorded while a tick is
\* suspended on its upsert
C11_Witness ==
    /\ last.op = "Notify"
    /\ Listening(last.row) # {}
    /\ ticks # EmptyBag
    /\ stats.received = 2
    /\ Len(stats.latencies) = 2

\* C12: the echo of a write is handled at whatever time it comes.  The
\* delivery of a row's event while upserts are awaited, the one that wrote
\* the row among them, records the same thing as at any other time (one
\* more sample, the time of delivery minus the row's timestamp, when a
\* client of that id listens); a step that is no delivery
\* leaves stats.received and the samples alone, and stats.errors changes in
\* no step but the throw of an upsert, so an echo that never comes counts
\* nothing.
C12_EchoTiming ==
    [][ /\ last'.op = "Notify"
              => stats' = IF Listening(last'.row) # {}
                             /\ Truthy(last'.row._bench_sent_ts)
                          THEN [stats EXCEPT
                                  !.received = @ + 1,
                                  !.latencies = Append(@,
                                      Minus(Num(now),
                                            ParseInt(last'.row._bench_sent_ts)))]
                          ELSE stats
        /\ ~IsDelivery(last')
              => /\ stats'.received = stats.received
                 /\ stats'.latencies = stats.latencies
        /\ stats'.errors # stats.errors
              => last'.op \in {"InitThrow", "TickThrow"} ]_vars

\* C12 witness: the only client's first tick upsert is still awaited, and
\* its echo has just been delivered and recorded
C12_Witness ==
    /\ last.op = "Notify"
    /\ Head(last.row.value.s) = "v"
    /\ CLIENT_COUNT.n = 1
    /\ ticksFired = 1
    /\ ticks # EmptyBag
    /\ stats.sent = 0
    /\ stats.received = 1

\* C13: the p95 of a summary over n > 0 samples, all of them numbers, is
\* the sample at index min(floor(0.95 * n), n - 1) of the samples in
\* ascending numeric order: at most that many samples are below it, and
\* more than that many are not above it.  Over the samples 10, 20, ..., 100
\* in whatever order they were recorded it is 100.
C13_NearestRank ==
    \A l \in Summaries(out) :
        LET arr == stats.latencies
            n == Len(arr)
            idx == Min2((95 * n) \div 100, n - 1)
            v == out[l].p95
            Below == {k \in 1..n : arr[k].n < v.n}
            NotAbove == {k \in 1..n : arr[k].n <= v.n}
        IN  (n > 0 /\ ~HasNaN(arr))
              => /\ v.k = "number"
                 /\ Cardinality(Below) <= idx
                 /\ idx < Cardinality(NotAbove)
                 /\ (n = 10 /\ {arr[k].n : k \in 1..n} = {10 * k : k \in 1..10})
                      => v.n = 100

\* C13 witness: a summary over the samples 10, 20, ..., 100 recorded in an
\* order that is not the ascending one shows the p95 100
C13_Witness ==
    /\ Summaries(out) # {}
    /\ {stats.latencies[k].n : k \in 1..Len(stats.latencies)} = {10 * k : k \in 1..10}
    /\ Len(stats.latencies) = 10
    /\ stats.latencies[1].n = 70
    /\ stats.latencies[10].n = 60
    /\ out[1].p95 = Shown(Num(100))

\* C15: printing a summary reads the statistics and changes none.  The
\* report timer's step leaves stats as it is, the order of the samples
\* included; the step that ends a batch with a summary changes nothing but
\* the one counter of the upsert that returned in it; the line shows the
\* counters as they are after the step.
C15_SummaryReadOnly ==
    [][ Summaries(out') # {}
          => /\ stats'.latencies = stats.latencies
             /\ stats'.received = stats.received
             /\ last'.op = "Report" => stats' = stats
             /\ last'.op = "TickReturn"
                   => stats' = [stats EXCEPT !.sent = @ + 1]
             /\ last'.op = "TickThrow"
                   => stats' = [stats EXCEPT !.errors = @ + 1]
             /\ last'.op \in {"Report", "TickReturn", "TickThrow"}
             /\ \A l \in Summaries(out') :
                   /\ out'[l].SENT = stats'.sent
                   /\ out'[l].RECV = stats'.received
                   /\ out'[l].ERR = stats'.errors
                   /\ out'[l].samples = Len(stats'.latencies) ]_vars

\* C15 witness: the report timer has just printed a summary over two
\* samples that are not in ascending order, and they still are not
C15_Witness ==
    /\ last.op = "Report"
    /\ Summaries(out) # {}
    /\ Len(stats.latencies) = 2
    /\ ~HasNaN(stats.latencies)
    /\ stats.latencies[1].n > stats.latencies[2].n

\* C16: stats.sent, stats.received and stats.errors never go down, and no
\* step (initial upsert, tick upsert, delivery of an event, report, a tick
\* that overlaps another) adds more than one to any of them.
C16_CountersMonotonic ==
    [][ \A c \in {"sent", "received", "errors"} :
            /\ stats[c] >= 0
            /\ stats[c] <= stats'[c]
            /\ stats'[c] <= stats[c] + 1 ]_vars

\* C16 witness: two ticks have fired and each of the counters has counted
C16_Witness ==
    /\ ticksFired = 2
    /\ stats.sent = 1
    /\ stats.received = 1
    /\ stats.errors = 1

\* the upserts that have returned to the suspended ticks of the bag b
RECURSIVE ReturnedTo(_, _)
ReturnedTo(S, b) ==
    IF S = {} THEN 0
    ELSE LET tick == CHOOSE x \in S : TRUE
         IN  tick.i * CopiesIn(tick, b) + ReturnedTo(S \ {tick}, b)
\* the tick upserts that have returned or thrown so far
TickAttemptsDone ==
    CLIENT_COUNT.n * (ticksFired - BagCardinality(ticks))
    + ReturnedTo(BagToSet(ticks), ticks)

\* C17: a tick sends one upsert per client, in the order of the indexes,
\* the upsert of client i + 1 only in the step in which that of client i
\* returns or throws; each return or throw adds one to exactly one of
\* stats.sent and stats.errors.  So stats.sent plus the errors of tick
\* upserts is the number of tick upserts done, and k * CLIENT_COUNT when k
\* ticks have fired and none is suspended.
C17_OneWritePerSession ==
    [][ /\ stats.sent + stats.errors - initWrites.failed = TickAttemptsDone
        /\ stats'.sent + stats'.errors - initWrites'.failed = TickAttemptsDone'
        /\ ticks' = EmptyBag
              => stats'.sent + stats'.errors - initWrites'.failed
                   = ticksFired' * CLIENT_COUNT.n
        /\ last'.op = "TickFire"
              => /\ net' = net (+) SetToBag({TickRow(makeId(0), now)})
                 /\ ticks' = ticks (+) SetToBag({[i |-> 0, sent0 |-> stats.sent]})
                 /\ stats' = stats
        /\ last'.op \in {"TickReturn", "TickThrow"}
              => /\ \E tick \in BagToSet(ticks) : tick.i = last'.i
                 /\ \/ stats'.sent = stats.sent + 1 /\ stats'.errors = stats.errors
                    \/ stats'.sent = stats.sent /\ stats'.errors = stats.errors + 1
                 /\ IF last'.i + 1 < CLIENT_COUNT.n
                    THEN /\ net' = net (+) SetToBag({TickRow(makeId(last'.i + 1), now)})
                         /\ BagCardinality(ticks') = BagCardinality(ticks)
                    ELSE /\ net' = net
                         /\ BagCardinality(ticks') = BagCardinality(ticks) - 1
        /\ ~(last'.op \in {"TickFire", "TickReturn", "TickThrow"})
              => /\ ticks' = ticks
                 /\ stats'.sent = stats.sent ]_vars

\* C17 witness: one tick of two clients is over, one of its upserts
\* returned and the other threw
C17_Witness ==
    /\ CLIENT_COUNT.n = 2
    /\ ticksFired = 1
    /\ ticks = EmptyBag
    /\ initWrites.failed = 0
    /\ stats.sent = 1
    /\ stats.errors = 1

\* C18: an event is counted once, however many callbacks it reaches.  Each
\* client has a channel of its own, and a delivery runs the callback of
\* every joined one; at most one client has the row's id, the delivery
\* leaves stats as that client's callback alone leaves it (one more
\* received, one more sample, when the row has a timestamp), every other
\* callback changes nothing, and so does the delivery when no listening
\* client has the id.
C18_FanOutCountedOnce ==
    [][ /\ Len(chan') = Len(clients')
        /\ IsDelivery(last')
              => LET row == last'.row
                     Mine == Listening(row)
                 IN  /\ Cardinality(Mine) <= 1
                     /\ stats'.received <= stats.received + 1
                     /\ Len(stats'.latencies) <= Len(stats.latencies) + 1
                     /\ \A k \in 1..Len(clients) :
                           IF k \in Mine
                           THEN stats' = Handler(clients[k].id, row, stats, now)
                           ELSE chan[k] = "SUBSCRIBED"
                                  => Handler(clients[k].id, row, stats, now) = stats
                     /\ (Mine # {} /\ Truthy(row._bench_sent_ts))
                           => stats'.received = stats.received + 1
                     /\ Mine = {} => stats' = stats ]_vars

\* C18 witness: the echo of the second client's write has just reached the
\* callbacks of three listening clients, and one sample was recorded
C18_Witness ==
    /\ last.op = "Notify"
    /\ last.row.id = makeId(1)
    /\ Len(clients) = 3
    /\ \A k \in 1..Len(clients) : chan[k] = "SUBSCRIBED"
    /\ stats.received = 1
    /\ Len(stats.latencies) = 1

\* C19: the initial upserts never count in stats.sent, which is 0 until
\* the first tick fires, while the echo of an initial upsert is recorded by
\* its client like any other.  So stats.received can be above stats.sent;
\* when no event but the echoes of this run's upserts is delivered, each
\* once at most, it is at most the number of upserts sent, initial ones
\* and tick ones together.
C19_InitialWritesNotSent ==
    [][ /\ ticksFired' = 0 => stats'.sent = 0
        /\ last'.op \in {"RunStart", "InitReturn", "InitThrow"}
              => stats'.sent = stats.sent
        /\ ( /\ last'.op = "Notify"
             /\ last'.row.value = Str(<<"i", "n", "i", "t">>)
             /\ Listening(last'.row) # {} )
              => stats' = [stats EXCEPT
                             !.received = @ + 1,
                             !.latencies = Append(@,
                                 Minus(Num(now), ParseInt(last'.row._bench_sent_ts)))]
        /\ injected' = 0
              => stats'.received
                   <= Len(clients') + TickAttemptsDone' + BagCardinality(ticks') ]_vars

\* C19 witness: startup is over, no tick has fired, and the echo of an
\* initial upsert has just been recorded: stats.received is above
\* stats.sent
C19_Witness ==
    /\ pc = "running"
    /\ ticksFired = 0
    /\ last.op = "Notify"
    /\ last.row.value = Str(<<"i", "n", "i", "t">>)
    /\ stats.sent = 0
    /\ stats.received = 1
    /\ stats.received > stats.sent

\* C20: the volume summary is printed in the step that ends a batch, and in
\* no other step of a tick, exactly when stats.sent as it is then, the
\* increments of an overlapping tick included, is divisible by
\* 5 * CLIENT_COUNT; 0 is, so a batch after which nothing was ever sent
\* prints one.  The line shows that value of stats.sent.
C20_VolumeTrigger ==
    [][ last'.op \in {"TickFire", "TickReturn", "TickThrow"}
          => /\ Summaries(out') # {}
                  <=> /\ last'.op # "TickFire"
                      /\ last'.i = CLIENT_COUNT.n - 1
                      /\ stats'.sent % (5 * CLIENT_COUNT.n) = 0
             /\ \A l \in Summaries(out') : out'[l].SENT = stats'.sent ]_vars

\* C20 witness: a batch has just ended with a summary at a stats.sent above
\* 0 that is more than the ticks that are over have sent: it holds the
\* increments of the ticks that are still suspended
C20_Witness ==
    /\ last.op = "TickReturn"
    /\ last.i = CLIENT_COUNT.n - 1
    /\ Summaries(out) # {}
    /\ stats.sent = 5 * CLIENT_COUNT.n
    /\ stats.sent > CLIENT_COUNT.n * (ticksFired - BagCardinality(ticks))
====
